---- MODULE Spec2Model ----
(***************************************************************************)
(* State-machine model of two sen2like processing blocks:                  *)
(*   s2l_processes/S2L_Packager.py  (class S2L_Packager)                   *)
(*   s2l_processes/S2L_Atmcor.py    (smac_correction, class S2L_Atmcor)    *)
(* Python strings are TLA+ strings (TLC evaluates Len, SubSeq, Tail and \o *)
(* on them); real numbers are fixed-point integers in thousandths.         *)
(***************************************************************************)
EXTENDS Integers, Sequences, FiniteSets, TLC

VARIABLES
    images,     \* S2L_Packager.images: the class-level dict band -> file path
    cur,        \* per Packager instance: the product it is packaging, or NoProduct
    own,        \* per instance: bands it has packaged for its current product
    image30m,   \* per instance: product.image30m of its product (bands held)
    hlsplus,    \* S2L_config.config 'hlsplus'
    last,       \* what the last Packager handler call did
    nStarted,   \* number of products handed to the Packager so far
    run,        \* "running", or "failed" once an exception has propagated
    nm,         \* inputs and results of the naming of one band file
    flags,      \* S2L_config.config 'use_sen2cor' / 'use_smac'
    atm,        \* S2L_config.config 'uH2O', 'uO3', 'pressure', 'taup550' (dict)
    qi,         \* core.QI_MTD.mtd.metadata.qi (dict)
    scene,      \* the product S2L_Atmcor is correcting, with its CAMS dataset
    ac          \* what the last S2L_Atmcor.process call did

pkgVars == <<images, cur, own, image30m, hlsplus, last, nStarted, run>>
atmVars == <<flags, atm, qi, scene, ac>>
vars == <<images, cur, own, image30m, hlsplus, last, nStarted, run, nm, flags, atm, qi, scene, ac>>

\* ------------------------------------------------------------------ bounds

\* Number of products handed to the Packager in one run.
MaxProducts == 2

\* ------------------------------------------------------------ Python strings

\* str.startswith
startswith(s, p) == Len(s) >= Len(p) /\ SubSeq(s, 1, Len(p)) = p

\* str.endswith
endswith(s, p) == Len(s) >= Len(p) /\ SubSeq(s, Len(s) - Len(p) + 1, Len(s)) = p

\* "_".join(tokens)
RECURSIVE join_underscore(_)
join_underscore(tokens) ==
    IF tokens = <<>> THEN ""
    ELSE IF Len(tokens) = 1 THEN tokens[1]
    ELSE tokens[1] \o "_" \o join_underscore(Tail(tokens))

\* '{:0>w}'.format(s): right-align s in width w, filling with '0'; never truncates
RECURSIVE format_0_right(_, _)
format_0_right(s, w) == IF Len(s) >= w THEN s ELSE format_0_right("0" \o s, w)

\* dt.datetime.strftime(d, '%Y%m%d') for a date <<year, month, day>>
strftime_Ymd(d) ==
    format_0_right(ToString(d[1]), 4) \o format_0_right(ToString(d[2]), 2)
        \o format_0_right(ToString(d[3]), 2)

\* os.path.join(a, b) on POSIX
path_join(a, b) ==
    IF startswith(b, "/") THEN b
    ELSE IF a = "" \/ endswith(a, "/") THEN a \o b
    ELSE a \o "/" \o b

\* index of the last "/" of a path, 0 when it has none
RECURSIVE last_sep(_, _)
last_sep(p, k) == IF k = 0 THEN 0 ELSE IF SubSeq(p, k, k) = "/" THEN k ELSE last_sep(p, k - 1)

\* os.path.dirname, os.path.basename of a path that is not the root
dirname(p) == SubSeq(p, 1, last_sep(p, Len(p)) - 1)
basename(p) == SubSeq(p, last_sep(p, Len(p)) + 1, Len(p))

\* int(res) of a resolution held in tenths of a metre: truncation
int_res(xRes) == xRes \div 10

\* ------------------------------------------------------- S2L_Packager naming

\* S2L_Packager.base_path: <<outdir, tilecode>>
base_path_keep_T(product) ==
    LET acqdate == strftime_Ymd(product.acqdate)
        tilecode == product.mgrs
    IN  <<join_underscore(<<"L2F", tilecode, acqdate, product.sensor_name,
                            "R" \o format_0_right(ToString(product.relative_orbit), 3)>>),
          tilecode>>

base_path(product) ==
    LET acqdate == strftime_Ymd(product.acqdate)
        tilecode == IF startswith(product.mgrs, "T") THEN Tail(product.mgrs)
                    ELSE product.mgrs
    IN  <<join_underscore(<<"L2F", tilecode, acqdate, product.sensor_name,
                            "R" \o format_0_right(ToString(product.relative_orbit), 3)>>),
          tilecode>>

\* process, lines 47-49 and 64: the band file name at a resolution
outfile_name(outdir, band, xRes) ==
    join_underscore(<<outdir, band, ToString(int_res(xRes)) \o "m">>) \o ".TIF"

\* process, lines 50-51: tsdir and the path of a file of the product
ts_dir(archive_dir, tilecode) == path_join(archive_dir, tilecode)

product_path(archive_dir, tilecode, outdir, file) ==
    path_join(path_join(ts_dir(archive_dir, tilecode), outdir), file)

\* ------------------------------------------------------------ Packager inputs

Bands == {"B02", "B03", "B04"}

\* The S2L_Packager instances of the run
Instances == {"pkgA", "pkgB"}

NoProduct == [name |-> "none"]

\* Products handed to the Packager: one per value of product.sensor the code
\* distinguishes (S2, L8, L9) and one of another sensor.  relative_orbit is the
\* value S2L_config holds for the product.
Products ==
    { [name |-> "P_S2", mgrs |-> "T32TQM", acqdate |-> <<2021, 5, 4>>, sensor |-> "S2",
       sensor_name |-> "S2A", relative_orbit |-> 7, mtl |-> "MTD_MSIL1C.xml",
       tile_metadata |-> "MTD_TL.xml"],
      [name |-> "P_L8", mgrs |-> "31TFJ", acqdate |-> <<2020, 12, 31>>, sensor |-> "L8",
       sensor_name |-> "LS8", relative_orbit |-> 196, mtl |-> "LC08_MTL.txt",
       tile_metadata |-> ""],
      [name |-> "P_L9", mgrs |-> "31TFJ", acqdate |-> <<2022, 1, 9>>, sensor |-> "L9",
       sensor_name |-> "LS9", relative_orbit |-> 30, mtl |-> "LC09_MTL.txt",
       tile_metadata |-> ""],
      [name |-> "P_L7", mgrs |-> "T12SYH", acqdate |-> <<2019, 10, 1>>, sensor |-> "L7",
       sensor_name |-> "LS7", relative_orbit |-> 35, mtl |-> "LE07_MTL.txt",
       tile_metadata |-> ""] }

\* image.xRes of a product's band images, in tenths of a metre
Resolutions(product) == IF product.sensor = "S2" THEN {100} ELSE {300}

\* product.image30m at hand-over: the bands it holds a 30 m image of
Image30mChoices == {{}, {"B04"}, Bands}

\* S2L_config.config: 'archive_dir' and 'wd'
ArchiveDir == "/data/archive"
WorkDir == "/wd"

EmptyDict == [b \in {} |-> ""]

dict_set(d, k, v) == [x \in DOMAIN d \cup {k} |-> IF x = k THEN v ELSE d[x]]

NoCall ==
    [op |-> "none", inst |-> "", product |-> NoProduct, band |-> "", status |-> "ok",
     bands |-> {}, own |-> {}, first |-> FALSE, had30m |-> FALSE, writes |-> {}, config |-> {}]

\* ------------------------------------------------------- S2L_Packager state

\* self.images of instance i: no instance attribute is ever assigned, so the
\* lookup resolves to the class attribute S2L_Packager.images
self_images(i) == images

\* ------------------------------------------------------ S2L_Packager.process

\* image.write(..., filepath=newpath): the file written
write_band(newpath) == {[kind |-> "band", path |-> newpath]}

\* process, lines 59-60: the keys process sets in S2L_config.config, with
\* image.dirpath and image.filename of the image written at newpath
config_set(newpath, band) ==
    {<<"imageout_dir", dirname(newpath)>>, <<"imageout_" \o band, basename(newpath)>>}

secondary_writes_unguarded(product, hls, band, img30, newpath_30m) ==
    IF hls
    THEN (IF product.sensor = "S2"
          THEN {[kind |-> "resampled", path |-> newpath_30m]} ELSE {})
         \cup
         (IF product.sensor \in {"L8", "L9"}
          THEN {[kind |-> "precomputed", path |-> newpath_30m]} ELSE {})
    ELSE {}

\* process, lines 62-78: the secondary (30 m) files written by one call
secondary_writes(product, hls, band, img30, newpath_30m) ==
    IF hls
    THEN (IF product.sensor = "S2"
          THEN {[kind |-> "resampled", path |-> newpath_30m]} ELSE {})
         \cup
         (IF product.sensor \in {"L8", "L9"} /\ band \in img30
          THEN {[kind |-> "precomputed", path |-> newpath_30m]} ELSE {})
    ELSE {}

\* process, line 78: del product.image30m[band]
image30m_after(product, hls, band, img30) ==
    IF hls /\ product.sensor \in {"L8", "L9"} /\ band \in img30
    THEN img30 \ {band} ELSE img30

Process(i, band) ==
    /\ run = "running"
    /\ cur[i] # NoProduct
    /\ \E xRes \in Resolutions(cur[i]) :
       LET product == cur[i]
           outdir == base_path(product)[1]
           tilecode == base_path(product)[2]
           outfile == outfile_name(outdir, band, xRes)
           newpath == product_path(ArchiveDir, tilecode, outdir, outfile)
           newpath_30m == product_path(ArchiveDir, tilecode, outdir,
                                       outfile_name(outdir, band, 300))
           sec == secondary_writes(product, hlsplus, band, image30m[i], newpath_30m)
       IN  /\ images' = dict_set(self_images(i), band, newpath)
           /\ image30m' = [image30m EXCEPT
                             ![i] = image30m_after(product, hlsplus, band, image30m[i])]
           /\ last' = [op |-> "process", inst |-> i, product |-> product,
                       band |-> band, status |-> "ok", bands |-> DOMAIN self_images(i),
                       own |-> own[i],
                       first |-> own[i] = {}, had30m |-> band \in image30m[i],
                       writes |-> write_band(newpath) \cup sec,
                       config |-> config_set(newpath, band)]
    /\ own' = [own EXCEPT ![i] = own[i] \cup {band}]
    /\ UNCHANGED <<cur, hlsplus, nStarted, run, nm>>
    /\ UNCHANGED atmVars

\* -------------------------------------------------- S2L_Packager.postprocess

\* core.S2L_tools.quicklook(product, images, band_list, qlpath, ...): the
\* quicklook file it emits
quicklook(imgs, band_list, qlpath) == {[kind |-> "quicklook", path |-> qlpath]}

ql_path(tsdir, outdir, code) ==
    path_join(path_join(path_join(tsdir, "QI"), "QL_" \o code),
              join_underscore(<<outdir, "QL", code>>) \o ".jpg")

\* list(self.images.keys())[0] of a dict with one key
first_key(imgs) == CHOOSE b \in DOMAIN imgs : TRUE

quicklooks_gt2(imgs, tsdir, outdir) ==
    IF Cardinality(DOMAIN imgs) > 2
    THEN quicklook(imgs, <<"B04", "B03", "B02">>, ql_path(tsdir, outdir, "B432"))
         \cup quicklook(imgs, <<"B12", "B11", "B8A">>, ql_path(tsdir, outdir, "B12118A"))
    ELSE quicklook(imgs, <<first_key(imgs)>>, ql_path(tsdir, outdir, first_key(imgs)))

\* postprocess, lines 124-144, for a registry that is not empty
quicklooks(imgs, tsdir, outdir) ==
    IF Cardinality(DOMAIN imgs) > 1
    THEN quicklook(imgs, <<"B04", "B03", "B02">>, ql_path(tsdir, outdir, "B432"))
         \cup quicklook(imgs, <<"B12", "B11", "B8A">>, ql_path(tsdir, outdir, "B12118A"))
    ELSE quicklook(imgs, <<first_key(imgs)>>, ql_path(tsdir, outdir, first_key(imgs)))

\* postprocess, lines 89-122: the auxiliary files copied or saved
auxiliary_files(product, tsdir, outdir, correl) ==
    LET in_product(f) == path_join(path_join(tsdir, outdir), f)
        in_QI(f) == path_join(path_join(tsdir, "QI"), f)
    IN  {[kind |-> "mtl", path |-> in_product(product.mtl)]}
        \cup (IF product.tile_metadata # ""
              THEN {[kind |-> "tile_metadata", path |-> in_product(product.tile_metadata)]}
              ELSE {})
        \cup {[kind |-> "angles",
               path |-> in_product(join_underscore(<<outdir, "ANG">>) \o ".TIF")]}
        \cup {[kind |-> "mask",
               path |-> in_product(join_underscore(<<outdir, "MSK">>) \o ".TIF")]}
        \cup {[kind |-> "config",
               path |-> path_join(path_join(WorkDir, product.name),
                                  in_QI(join_underscore(<<outdir, "INFO">>) \o ".cfg"))]}
        \cup (IF correl
              THEN {[kind |-> "correl",
                     path |-> in_QI(join_underscore(<<outdir, "CORREL">>) \o ".csv")]}
              ELSE {})

images_not_cleared(imgs) == imgs

\* postprocess, line 147: self.images.clear()
images_cleared(imgs) == EmptyDict

Postprocess(i, correl) ==
    /\ run = "running"
    /\ cur[i] # NoProduct
    /\ LET product == cur[i]
           outdir == base_path(product)[1]
           tsdir == ts_dir(ArchiveDir, base_path(product)[2])
           aux == auxiliary_files(product, tsdir, outdir, correl)
           call == [op |-> "postprocess", inst |-> i, product |-> product,
                    band |-> "", status |-> "ok", bands |-> DOMAIN self_images(i),
                    own |-> own[i],
                    first |-> FALSE, had30m |-> FALSE, writes |-> aux, config |-> {}]
       IN  IF DOMAIN self_images(i) = {}
           THEN \* band_list[0] of an empty list: IndexError leaves postprocess
                /\ last' = [call EXCEPT !.status = "IndexError"]
                /\ run' = "failed"
                /\ UNCHANGED <<images, cur, own>>
           ELSE /\ last' = [call EXCEPT
                              !.writes = aux \cup quicklooks(self_images(i), tsdir, outdir)]
                /\ images' = images_cleared(self_images(i))
                /\ cur' = [cur EXCEPT ![i] = NoProduct]
                /\ own' = [own EXCEPT ![i] = {}]
                /\ run' = run
    /\ UNCHANGED <<image30m, hlsplus, nStarted, nm>>
    /\ UNCHANGED atmVars

\* ------------------------------------------------------------- orchestration

\* A product is handed to Packager instance i (its bands, then postprocess,
\* follow); product.image30m exists for the Landsat products only.
HandOver(i, p, img30) ==
    /\ run = "running"
    /\ nStarted < MaxProducts
    /\ cur[i] = NoProduct
    /\ img30 # {} => p.sensor \in {"L8", "L9"}
    /\ cur' = [cur EXCEPT ![i] = p]
    /\ own' = [own EXCEPT ![i] = {}]
    /\ image30m' = [image30m EXCEPT ![i] = img30]
    /\ nStarted' = nStarted + 1
    /\ UNCHANGED <<images, hlsplus, last, run, nm>>
    /\ UNCHANGED atmVars

\* Products one after the other: a product starts when no other is in hand.
NewProduct(i, p, img30) ==
    /\ \A j \in Instances : cur[j] = NoProduct
    /\ HandOver(i, p, img30)

\* Two instances packaging at the same time.
NewProductConcurrent(i, p) ==
    /\ HandOver(i, p, IF p.sensor \in {"L8", "L9"} THEN Bands ELSE {})

NmIdle == [pc |-> "idle"]

\* S2L_Atmcor not started: nothing configured, recorded or corrected
AtmcorIdle ==
    /\ flags = [use_sen2cor |-> FALSE, use_smac |-> FALSE,
                generate_intermediate_products |-> FALSE]
    /\ atm = EmptyDict
    /\ qi = EmptyDict
    /\ scene = [state |-> "none"]
    /\ ac = [op |-> "none"]

PackagerIdle ==
    /\ images = EmptyDict
    /\ cur = [i \in Instances |-> NoProduct]
    /\ own = [i \in Instances |-> {}]
    /\ image30m = [i \in Instances |-> {}]
    /\ last = NoCall
    /\ nStarted = 0
    /\ run = "running"

InitPackager ==
    /\ PackagerIdle
    /\ hlsplus \in BOOLEAN
    /\ nm = NmIdle
    /\ AtmcorIdle

NextPackager ==
    \/ \E i \in Instances, p \in Products, img30 \in Image30mChoices : NewProduct(i, p, img30)
    \/ \E i \in Instances, band \in Bands : Process(i, band)
    \/ \E i \in Instances, correl \in BOOLEAN : Postprocess(i, correl)

SpecPackager == InitPackager /\ [][NextPackager]_vars

NextShared ==
    \/ \E i \in Instances, p \in Products : NewProductConcurrent(i, p)
    \/ \E i \in Instances, band \in Bands : Process(i, band)
    \/ \E i \in Instances, correl \in BOOLEAN : Postprocess(i, correl)

SpecShared == InitPackager /\ [][NextShared]_vars

\* -------------------------------------------------- naming of one band file

TileCodes == {"T32TQM", "32TQM", "31TFJ", "TT9ZZ"}
AcqDates == {<<2021, 5, 4>>, <<2020, 12, 31>>, <<2015, 10, 9>>}
SensorNames == {"S2A", "LS8"}
RelativeOrbits == {0, 7, 42, 143, 1000}
BandNames == {"B04", "B8A", "B12"}
ImageResolutions == {100, 200, 300, 600}
ArchiveDirs == {"/data/archive", "out/"}

InitNaming ==
    /\ PackagerIdle
    /\ hlsplus = FALSE
    /\ AtmcorIdle
    /\ \E t \in TileCodes, d \in AcqDates, sn \in SensorNames, o \in RelativeOrbits,
          b \in BandNames, r \in ImageResolutions, a \in ArchiveDirs :
          nm = [pc |-> "input",
                product |-> [mgrs |-> t, acqdate |-> d, sensor_name |-> sn,
                             relative_orbit |-> o],
                band |-> b, xRes |-> r, archive_dir |-> a,
                outdir |-> "", outfile |-> "", newpath |-> ""]

\* process, lines 47-51, on the inputs held in nm
NameBand ==
    /\ nm.pc = "input"
    /\ LET outdir == base_path(nm.product)[1]
           tilecode == base_path(nm.product)[2]
           outfile == outfile_name(outdir, nm.band, nm.xRes)
       IN  nm' = [nm EXCEPT !.pc = "named", !.outdir = outdir, !.outfile = outfile,
                            !.newpath = product_path(nm.archive_dir, tilecode,
                                                     outdir, outfile)]
    /\ UNCHANGED pkgVars
    /\ UNCHANGED atmVars

NextNaming == NameBand

SpecNaming == InitNaming /\ [][NextNaming]_vars

\* ------------------------------------------------------------ Packager claims

SecondaryKinds == {w.kind : w \in {x \in last.writes : x.kind \in {"resampled", "precomputed"}}}

Quicklooks == {w.path : w \in {x \in last.writes : x.kind = "quicklook"}}

\* C1: with products packaged one after the other, the registry is empty when
\* the first band of a product is packaged, is empty again once the product's
\* postprocess has returned, and is empty while a product has no band yet.
C1_RegistryEmptyBetweenProducts ==
    /\ (last.op = "process" /\ last.first) => last.bands = {}
    /\ (last.op = "postprocess" /\ last.status = "ok") => DOMAIN images = {}
    /\ \A i \in Instances : (cur[i] # NoProduct /\ own[i] = {}) => DOMAIN images = {}

\* A product with all its bands was finalized and the next product is in hand.
C1_Witness ==
    /\ last.op = "postprocess" /\ last.status = "ok" /\ last.bands = Bands
    /\ nStarted = 2
    /\ \E i \in Instances : cur[i] # NoProduct /\ cur[i] # last.product
    /\ DOMAIN images = {}

\* C2: postprocess emits, for a registry of exactly one band, the one grayscale
\* quicklook {outdir}_QL_{band}.jpg of that band, and for a registry of two or
\* more bands exactly the QL_B432 and QL_B12118A composites.
C2_QuicklookSelection ==
    (last.op = "postprocess" /\ last.status = "ok") =>
        LET n == Cardinality(last.bands)
            outdir == base_path(last.product)[1]
        IN  /\ n = 1 =>
                 \E b \in last.bands :
                    /\ Cardinality(Quicklooks) = 1
                    /\ \A q \in Quicklooks :
                          /\ basename(q) = outdir \o "_QL_" \o b \o ".jpg"
                          /\ basename(dirname(q)) = "QL_" \o b
            /\ n >= 2 =>
                 /\ Cardinality(Quicklooks) = 2
                 /\ {basename(q) : q \in Quicklooks} =
                       {outdir \o "_QL_B432.jpg", outdir \o "_QL_B12118A.jpg"}

\* A product of exactly one band was finalized with its grayscale quicklook.
C2_Witness ==
    /\ last.op = "postprocess" /\ last.status = "ok"
    /\ last.bands = {"B03"}
    /\ Cardinality(Quicklooks) = 1
    /\ \E q \in Quicklooks : endswith(q, "_QL_B03.jpg")

\* C3: the band file name is L2F, the tile code without one leading T, the
\* date as YYYYMMDD, the sensor name, R and the orbit zero-padded to 3 digits,
\* the band and the resolution in metres followed by m, joined by _ in that
\* order, with suffix .TIF; the file is at archiveDir/tileCode/outdir/outfile;
\* T32TQM, 2021-05-04, S2A, 7, B04, 10 gives L2F_32TQM_20210504_S2A_R007_B04_10m.TIF.
C3_BandFileName ==
    nm.pc = "named" =>
        LET p == nm.product
            tile == IF Head(p.mgrs) = "T" THEN Tail(p.mgrs) ELSE p.mgrs
            date == ToString(p.acqdate[1] * 10000 + p.acqdate[2] * 100 + p.acqdate[3])
            orbit == (IF p.relative_orbit < 10 THEN "00"
                      ELSE IF p.relative_orbit < 100 THEN "0" ELSE "")
                     \o ToString(p.relative_orbit)
            outdir == "L2F_" \o tile \o "_" \o date \o "_" \o p.sensor_name \o "_R" \o orbit
            file == outdir \o "_" \o nm.band \o "_" \o ToString(nm.xRes \div 10) \o "m.TIF"
            archive == IF endswith(nm.archive_dir, "/")
                       THEN SubSeq(nm.archive_dir, 1, Len(nm.archive_dir) - 1)
                       ELSE nm.archive_dir
        IN  /\ nm.outfile = file
            /\ nm.newpath = archive \o "/" \o tile \o "/" \o outdir \o "/" \o file
            /\ (p.mgrs = "T32TQM" /\ p.acqdate = <<2021, 5, 4>> /\ p.sensor_name = "S2A"
                /\ p.relative_orbit = 7 /\ nm.band = "B04" /\ nm.xRes = 100)
                  => nm.outfile = "L2F_32TQM_20210504_S2A_R007_B04_10m.TIF"

\* The example of the naming convention has been named.
C3_Witness ==
    /\ nm.pc = "named"
    /\ nm.product.mgrs = "T32TQM" /\ nm.product.relative_orbit = 7
    /\ nm.outfile = "L2F_32TQM_20210504_S2A_R007_B04_10m.TIF"
    /\ nm.newpath = "/data/archive/32TQM/L2F_32TQM_20210504_S2A_R007/L2F_32TQM_20210504_S2A_R007_B04_10m.TIF"

\* C6 as stated: in hlsplus mode every process call of an S2 product writes the
\* resampled 30 m file, every process call of an L8/L9 product writes the
\* precomputed 30 m image, and no other call writes a secondary file.
C6_OnePathPerSensorFamily ==
    last.op = "process" =>
        /\ (hlsplus /\ last.product.sensor = "S2") => SecondaryKinds = {"resampled"}
        /\ (hlsplus /\ last.product.sensor \in {"L8", "L9"}) => SecondaryKinds = {"precomputed"}
        /\ (~hlsplus \/ last.product.sensor \notin {"S2", "L8", "L9"}) => SecondaryKinds = {}

\* C6 amended: as C6, except that an L8/L9 call writes the precomputed 30 m
\* image only when product.image30m holds one for the band, and no secondary
\* file otherwise; the two paths never both run in one call.
C6_OnePathWhenPrecomputedHeld ==
    last.op = "process" =>
        /\ (hlsplus /\ last.product.sensor = "S2") => SecondaryKinds = {"resampled"}
        /\ (hlsplus /\ last.product.sensor \in {"L8", "L9"}) =>
              SecondaryKinds = (IF last.had30m THEN {"precomputed"} ELSE {})
        /\ (~hlsplus \/ last.product.sensor \notin {"S2", "L8", "L9"}) => SecondaryKinds = {}
        /\ Cardinality(SecondaryKinds) <= 1

\* An L8/L9 band without a precomputed 30 m image was packaged in hlsplus mode.
C6_Witness ==
    /\ last.op = "process" /\ hlsplus
    /\ last.product.sensor \in {"L8", "L9"}
    /\ ~last.had30m
    /\ SecondaryKinds = {}

\* C8: while an instance packages a product, the registry it reads holds
\* exactly the bands that instance packaged for that product, whatever another
\* instance does meanwhile, and postprocess counts only those bands.
C8_RegistryInstanceScoped ==
    /\ \A i \in Instances : cur[i] # NoProduct => DOMAIN self_images(i) = own[i]
    /\ last.op = "postprocess" => last.bands = last.own

\* ==================================================================== Atmcor

\* Number of S2L_Atmcor.process calls (bands) per product.
MaxBands == 2

\* smac_correction, lines 124-127: the constant values, in thousandths
uH2O_default == 2000
uO3_default == 331
pressure_default == 1013095
taup550_default == 200

\* smac_correction, lines 152-153 and 167: the number of TOA samples
NSamples == 101

None == "None"

\* ECMWF_Product(cams_config, observation_datetime) of a product: is_valid and,
\* when valid, the fields at (lon, lat): a value at the origin and a slope
CamsDatasets ==
    { [is_valid |-> FALSE, wv |-> 0, o3 |-> 0, msl |-> 0, aot |-> 0, slope |-> 0],
      [is_valid |-> TRUE, wv |-> 1500, o3 |-> 300, msl |-> 1000000, aot |-> 100, slope |-> 0],
      [is_valid |-> TRUE, wv |-> 2000, o3 |-> 331, msl |-> 1013095, aot |-> 200, slope |-> 8] }

\* image.getCorners(outEPSG=4326): <<lon1, lat1, ..., lon4, lat4>>
Extents == { <<0, 0, 4, 0, 4, 4, 0, 4>>, <<4, 4, 8, 4, 8, 8, 4, 8>> }

\* image.array: TOA pixel grids (no-data and negative pixels included)
Grids == { <<0, 0>>, <<-1, 2>>, <<1, 0>> }

\* product.get_smac_filename(band): None or a coefficient file name
SmacFilenames == { None, "Coef_S2A_CONT_B4.dat" }

\* np.polyfit(r_toa, r_surf_SMAC, 2, full=True)[0]: highest degree first
PolyCoefs == { <<0, 1, 0>>, <<1, 2, 3>>, <<2, 1, -1>> }

\* S2L_config.config.get(key) of an atmospheric scalar: <<value>>, or << >> for None
config_get(cfg, key) == IF key \in DOMAIN cfg THEN <<cfg[key]>> ELSE << >>

\* ATMO_parameter(ecmwf_data).project(lat, lon) and its four getters
project(ds, lat, lon) ==
    [ctwv |-> ds.wv + ds.slope * lon,
     gtc03 |-> ds.o3 + ds.slope * lat,
     msl |-> ds.msl + ds.slope * (lon + lat),
     aot |-> ds.aot + ds.slope * lon]

\* smac_correction, lines 81-91: the samples at the four corners
corner_samples(ds, extent) ==
    [index \in 1..4 |-> project(ds, extent[2 * index], extent[2 * index - 1])]

\* ATMO_parameter.compute_model(extent, v) evaluated at the scene centre
\* (lines 96-109).  The least-squares plane c1*lon + c2*lat + c3 has an
\* intercept, so its residuals sum to zero and its value at the mean of the
\* four corners is the mean of the four samples.
estimate_at_centre(v) == (v[1] + v[2] + v[3] + v[4]) \div 4

constant_values ==
    [uH2O |-> uH2O_default, uO3 |-> uO3_default,
     pressure |-> pressure_default, taup550 |-> taup550_default]

resolved_state_mixed(ds, extent) ==
    LET c == corner_samples(ds, extent)
    IN  IF ds.is_valid
        THEN [uH2O |-> estimate_at_centre([i \in 1..4 |-> c[i].ctwv]),
              uO3 |-> estimate_at_centre([i \in 1..4 |-> c[i].gtc03]),
              pressure |-> pressure_default,
              taup550 |-> estimate_at_centre([i \in 1..4 |-> c[i].aot])]
        ELSE constant_values

\* smac_correction, lines 71-127: uH2O, uO3, pressure, taup550
resolved_state(ds, extent) ==
    LET c == corner_samples(ds, extent)
    IN  IF ds.is_valid
        THEN [uH2O |-> estimate_at_centre([i \in 1..4 |-> c[i].ctwv]),
              uO3 |-> estimate_at_centre([i \in 1..4 |-> c[i].gtc03]),
              pressure |-> estimate_at_centre([i \in 1..4 |-> c[i].msl]),
              taup550 |-> estimate_at_centre([i \in 1..4 |-> c[i].aot])]
        ELSE constant_values

\* smac_correction, lines 129-132: the four config.set calls
config_with_state(cfg, st) ==
    [k \in DOMAIN cfg \cup {"uH2O", "uO3", "pressure", "taup550"} |->
        CASE k = "uH2O" -> st.uH2O
          [] k = "uO3" -> st.uO3
          [] k = "pressure" -> st.pressure
          [] k = "taup550" -> st.taup550
          [] OTHER -> cfg[k]]

get_smac_coefficients_ignore_missing(filename, exists) ==
    IF filename = None THEN None ELSE "COEFS/" \o filename

\* get_smac_coefficients: the coefficient file, or None
get_smac_coefficients(filename, exists) ==
    IF filename = None THEN None
    ELSE IF exists THEN "COEFS/" \o filename
    ELSE None

\* np.float32(array_in): a new array of the same values (the pixel values of
\* the model are exactly representable)
float32(array) == [k \in DOMAIN array |-> array[k]]

apply_fit_mask_negative(Bands_toa, poly) ==
    [k \in DOMAIN Bands_toa |->
        IF Bands_toa[k] < 0 THEN 0
        ELSE poly[3] + poly[2] * Bands_toa[k] + poly[1] * Bands_toa[k] * Bands_toa[k]]

\* smac_correction, lines 179-181: surf_ref, with poly = poly_coefs[0]
apply_fit(Bands_toa, poly) ==
    [k \in DOMAIN Bands_toa |->
        IF Bands_toa[k] <= 0 THEN 0
        ELSE poly[3] + poly[2] * Bands_toa[k] + poly[1] * Bands_toa[k] * Bands_toa[k]]

\* smac_correction: the arrays it leaves, the array it returns, and the number
\* of smac_inv and np.polyfit calls it made
smac_correction(array_in, filename, exists, poly) ==
    IF get_smac_coefficients(filename, exists) = None
    THEN [heap |-> [array_in |-> array_in], ret |-> "array_in", nInv |-> 0, nFit |-> 0]
    ELSE [heap |-> [array_in |-> array_in, Bands_toa |-> float32(array_in),
                    surf_ref |-> apply_fit(float32(array_in), poly)],
          ret |-> "surf_ref", nInv |-> NSamples, nFit |-> 1]

NoPoly == <<0, 0, 0>>
NoExtent == <<0, 0, 0, 0, 0, 0, 0, 0>>

\* S2L_Atmcor.process
AtmProcess(grid, extent, filename, exists, poly) ==
    /\ scene.state = "bands"
    /\ scene.nBands < MaxBands
    /\ IF flags.use_smac
       THEN LET r == smac_correction(grid, filename, exists, poly)
                coef == get_smac_coefficients(filename, exists)
            IN  /\ extent \in Extents
                /\ (coef = None) => poly = NoPoly
                /\ (coef # None) => poly \in PolyCoefs
                /\ (filename = None) => exists = FALSE
                /\ atm' = config_with_state(atm, resolved_state(scene.cams, extent))
                /\ ac' = [op |-> "process", smac |-> TRUE, extent |-> extent,
                          filename |-> filename, exists |-> exists, poly |-> poly,
                          array_in |-> grid, heap |-> r.heap, ret |-> r.ret,
                          nInv |-> r.nInv, nFit |-> r.nFit,
                          written |-> flags.generate_intermediate_products]
       ELSE /\ extent = NoExtent /\ filename = None /\ exists = FALSE /\ poly = NoPoly
            /\ atm' = atm
            /\ ac' = [op |-> "process", smac |-> FALSE, extent |-> extent,
                      filename |-> filename, exists |-> exists, poly |-> poly,
                      array_in |-> grid, heap |-> [array_in |-> grid], ret |-> "array_in",
                      nInv |-> 0, nFit |-> 0, written |-> FALSE]
    /\ scene' = [scene EXCEPT !.nBands = @ + 1, !.smacRan = @ \/ flags.use_smac]
    /\ UNCHANGED <<flags, qi, nm>>
    /\ UNCHANGED pkgVars

\* S2L_Atmcor.postprocess
AtmPostprocess ==
    /\ scene.state = "bands"
    /\ qi' = IF flags.use_sen2cor
             THEN dict_set(qi, "AC_PROCESSOR", "SEN2COR")
             ELSE IF flags.use_smac
             THEN [k \in DOMAIN qi \cup {"AC_PROCESSOR", "GRANULE_MEAN_WV", "OZONE_VALUE",
                                         "PRESSURE", "GRANULE_MEAN_AOT"} |->
                     CASE k = "AC_PROCESSOR" -> "SMAC"
                       [] k = "GRANULE_MEAN_WV" -> config_get(atm, "uH2O")
                       [] k = "OZONE_VALUE" -> config_get(atm, "uO3")
                       [] k = "PRESSURE" -> config_get(atm, "pressure")
                       [] k = "GRANULE_MEAN_AOT" -> config_get(atm, "taup550")
                       [] OTHER -> qi[k]]
             ELSE qi
    /\ scene' = [scene EXCEPT !.state = "annotated"]
    /\ UNCHANGED <<flags, atm, ac, nm>>
    /\ UNCHANGED pkgVars

NoAtmCall ==
    [op |-> "none", smac |-> FALSE, extent |-> NoExtent, filename |-> None,
     exists |-> FALSE, poly |-> NoPoly, array_in |-> <<>>, heap |-> [array_in |-> <<>>],
     ret |-> "array_in", nInv |-> 0, nFit |-> 0, written |-> FALSE]

NoScene ==
    [state |-> "none", cams |-> CHOOSE ds \in CamsDatasets : ~ds.is_valid,
     nBands |-> 0, smacRan |-> FALSE, n |-> 0]

\* A product reaches S2L_Atmcor: its CAMS dataset, the configuration flags as
\* set for it and empty quality indicators; the atmospheric scalars of the
\* run-wide configuration stay as the previous product left them.
AtmNewProduct(ds, f) ==
    /\ scene.state \in {"none", "annotated"}
    /\ scene.n < MaxProducts
    /\ scene' = [state |-> "bands", cams |-> ds, nBands |-> 0, smacRan |-> FALSE,
                 n |-> scene.n + 1]
    /\ flags' = f
    /\ qi' = EmptyDict
    /\ ac' = NoAtmCall
    /\ UNCHANGED <<atm, nm>>
    /\ UNCHANGED pkgVars

Flags ==
    [use_sen2cor : BOOLEAN, use_smac : BOOLEAN, generate_intermediate_products : BOOLEAN]

InitAtmcor ==
    /\ PackagerIdle
    /\ hlsplus = FALSE
    /\ nm = NmIdle
    /\ flags \in Flags
    /\ atm = EmptyDict
    /\ qi = EmptyDict
    /\ scene = NoScene
    /\ ac = NoAtmCall

NextAtmcor ==
    \/ \E ds \in CamsDatasets, f \in Flags : AtmNewProduct(ds, f)
    \/ \E grid \in Grids, extent \in Extents \cup {NoExtent},
          filename \in SmacFilenames, exists \in BOOLEAN, poly \in PolyCoefs \cup {NoPoly} :
          AtmProcess(grid, extent, filename, exists, poly)
    \/ AtmPostprocess

SpecAtmcor == InitAtmcor /\ [][NextAtmcor]_vars

\* -------------------------------------------------------------- Atmcor claims

SmacCall == ac.op = "process" /\ ac.smac

StoredState ==
    [uH2O |-> atm["uH2O"], uO3 |-> atm["uO3"],
     pressure |-> atm["pressure"], taup550 |-> atm["taup550"]]

\* C4: after a smac_correction call the four scalars stored in the
\* configuration are exactly 2.0, 0.331, 1013.095 and 0.2 when the dataset is
\* invalid, and are the four estimates from that call's corner samples when it
\* is valid: all four constants or all four estimates, never a mix.
C4_StateAllConstantOrAllEstimated ==
    SmacCall =>
        LET ds == scene.cams
            lon(i) == ac.extent[2 * i - 1]
            lat(i) == ac.extent[2 * i]
            mean(f(_)) == (f(1) + f(2) + f(3) + f(4)) \div 4
            wv(i) == ds.wv + ds.slope * lon(i)
            o3(i) == ds.o3 + ds.slope * lat(i)
            msl(i) == ds.msl + ds.slope * (lon(i) + lat(i))
            aot(i) == ds.aot + ds.slope * lon(i)
            constants == [uH2O |-> 2000, uO3 |-> 331, pressure |-> 1013095, taup550 |-> 200]
            estimates == [uH2O |-> mean(wv), uO3 |-> mean(o3),
                          pressure |-> mean(msl), taup550 |-> mean(aot)]
        IN  /\ DOMAIN atm = {"uH2O", "uO3", "pressure", "taup550"}
            /\ ~ds.is_valid => StoredState = constants
            /\ ds.is_valid => StoredState = estimates

\* A band was corrected without CAMS data and the constants were stored.
C4_Witness ==
    /\ SmacCall
    /\ ~scene.cams.is_valid
    /\ StoredState = [uH2O |-> 2000, uO3 |-> 331, pressure |-> 1013095, taup550 |-> 200]

\* C5: when product.get_smac_filename gives None or the coefficient file is
\* missing, smac_correction returns the array it was given, unmodified, and
\* calls neither smac_inv nor np.polyfit, whatever the dataset validity.
C5_UnsupportedBandPassThrough ==
    (SmacCall /\ (ac.filename = None \/ ~ac.exists)) =>
        /\ ac.ret = "array_in"
        /\ ac.heap[ac.ret] = ac.array_in
        /\ DOMAIN ac.heap = {"array_in"}
        /\ ac.nInv = 0
        /\ ac.nFit = 0

\* A band whose coefficient file is missing was passed through, with valid CAMS data.
C5_Witness ==
    /\ SmacCall
    /\ ac.filename # None /\ ~ac.exists
    /\ scene.cams.is_valid
    /\ ac.ret = "array_in" /\ ac.array_in = <<-1, 2>>

\* C9: with a coefficient file, smac_correction returns a new array whose pixel
\* is 0 where the TOA pixel is <= 0 and c0 + c1*toa + c2*toa^2 elsewhere, for
\* np.polyfit's result <<c2, c1, c0>>; an all-zero input gives an all-zero
\* output, and the input array is unchanged.
C9_BandCorrection ==
    (SmacCall /\ ac.filename # None /\ ac.exists) =>
        LET toa == ac.array_in
            c0 == ac.poly[3]
            c1 == ac.poly[2]
            c2 == ac.poly[1]
        IN  /\ ac.ret = "surf_ref"
            /\ ac.heap["array_in"] = toa
            /\ DOMAIN ac.heap[ac.ret] = DOMAIN toa
            /\ \A k \in DOMAIN toa :
                  ac.heap[ac.ret][k] =
                     (IF toa[k] <= 0 THEN 0 ELSE c0 + c1 * toa[k] + c2 * toa[k] * toa[k])
            /\ (\A k \in DOMAIN toa : toa[k] = 0) =>
                  (\A k \in DOMAIN toa : ac.heap[ac.ret][k] = 0)
            /\ ac.nInv = 101 /\ ac.nFit = 1

\* A grid with a zero pixel was corrected with a fit whose constant term is not 0.
C9_Witness ==
    /\ SmacCall /\ ac.filename # None /\ ac.exists
    /\ ac.array_in = <<1, 0>>
    /\ ac.poly = <<1, 2, 3>>
    /\ ac.heap[ac.ret] = <<6, 0>>

\* C7: once postprocess has run for a product with bands, the tag is SMAC with
\* the four scalars when process ran smac_correction, the tag is SEN2COR alone
\* when the external path was used, and the tag says SMAC exactly when
\* smac_correction ran, for every combination of use_sen2cor and use_smac.
C7_TagAgreesWithPath ==
    (scene.state = "annotated" /\ scene.nBands > 0) =>
        /\ scene.smacRan =>
              /\ DOMAIN qi = {"AC_PROCESSOR", "GRANULE_MEAN_WV", "OZONE_VALUE",
                              "PRESSURE", "GRANULE_MEAN_AOT"}
              /\ qi["AC_PROCESSOR"] = "SMAC"
              /\ qi["GRANULE_MEAN_WV"] = <<atm["uH2O"]>>
              /\ qi["OZONE_VALUE"] = <<atm["uO3"]>>
              /\ qi["PRESSURE"] = <<atm["pressure"]>>
              /\ qi["GRANULE_MEAN_AOT"] = <<atm["taup550"]>>
        /\ (~scene.smacRan /\ flags.use_sen2cor) =>
              /\ DOMAIN qi = {"AC_PROCESSOR"}
              /\ qi["AC_PROCESSOR"] = "SEN2COR"
        /\ "AC_PROCESSOR" \in DOMAIN qi => (qi["AC_PROCESSOR"] = "SMAC" <=> scene.smacRan)

\* C10: once the first band of a product has resolved the four scalars, no
\* later process call for that product changes them.
C10_StateImmutableOnceResolved ==
    [][(scene.state = "bands" /\ scene.smacRan /\ scene'.state = "bands")
          => atm' = atm]_vars

====
